---- MODULE Spec2Model ----
(***************************************************************************)
(* Light controller (src/src/main.cpp): the start-time guard, the Off/On   *)
(* state machine with its actions, the background timer task that          *)
(* evaluates the schedule, and the polling main loop.                      *)
(*                                                                         *)
(* Texts are sequences of one-character strings.  The main thread and the  *)
(* timer thread are two processes with program counters mpc and wpc; each  *)
(* action is one atomic step of one thread (at most one access to a        *)
(* variable the other thread can see).                                     *)
(***************************************************************************)
EXTENDS Integers, Sequences, FiniteSets, TLC

VARIABLES
  args1,               \* argv[1], the start-time text (main.cpp:330)
  clock,               \* wall-clock minute of the day read by std::time
  ticks,               \* minutes elapsed since the process started (bounded)
  state,               \* sml state: "off" | "on"
  active_timeslot,     \* ctrl::active_timeslot
  start_time_minutes,  \* ctrl::start_time_minutes
  task_running,        \* ctrl::task_running
  light,               \* do_light::last_value
  onoff_last,          \* di_onoff::last_value
  mode_last,           \* di_mode::last_value
  mpc,                 \* position of the main thread
  wpc,                 \* position of the timer thread ("none": no thread)
  w_now,               \* iterate_task local now_time
  w_start,             \* iterate_task local start_time
  w_dur,               \* iterate_task local dur_time_s
  diag,                \* diagnostic printed by the last guard evaluation
  events,              \* events handed to the state machine in this step of
                       \* the program (entry, or the current loop iteration),
                       \* each with the state it was submitted in
  edges                \* di_onoff::toggled() calls that returned true in the
                       \* current loop iteration

vars == <<args1, clock, ticks, state, active_timeslot, start_time_minutes,
          task_running, light, onoff_last, mode_last, mpc, wpc, w_now,
          w_start, w_dur, diag, events, edges>>

(***************************************************************************)
(* Bounds of the model and constants of the program.                       *)
(***************************************************************************)
MaxLen == 6
MaxTicks == 2
GridStep == 30

HoursPerDay == 24
MinutesPerHour == 60
MinutesPerDay == 1440
MinLength == 5

(***************************************************************************)
(* std::string operations used by the program.                             *)
(***************************************************************************)
DigitChars == <<"0", "1", "2", "3", "4", "5", "6", "7", "8", "9">>

IsDigit(c) == \E d \in 1..10 : DigitChars[d] = c

DigitVal(c) == (CHOOSE d \in 1..10 : DigitChars[d] = c) - 1

substr(s, pos, n) ==
  SubSeq(s, pos + 1, IF pos + n <= Len(s) THEN pos + n ELSE Len(s))

contains(s, c) == \E i \in 1..Len(s) : s[i] = c

is_number(s) == \A i \in 1..Len(s) : IsDigit(s[i])

RECURSIVE stoi(_)
stoi(s) ==
  IF Len(s) = 0 THEN 0
  ELSE stoi(SubSeq(s, 1, Len(s) - 1)) * 10 + DigitVal(s[Len(s)])

\* Variant of turn_on_guard_msg that looks for the separator before it checks
\* the length.
turn_on_guard_msg_separator_first(time_on) ==
  IF ~contains(time_on, ":") /\ ~contains(time_on, ".")
    THEN "missing_separator"
  ELSE IF Len(time_on) < MinLength THEN "too_short"
  ELSE LET on_hour   == substr(time_on, 0, 2)
           on_minute == substr(time_on, 3, 2)
       IN IF ~is_number(on_hour) \/ ~is_number(on_minute) THEN "non_number"
          ELSE IF stoi(on_hour) < 0 \/ stoi(on_hour) >= HoursPerDay
            THEN "hour_bounds"
          ELSE IF stoi(on_minute) < 0 \/ stoi(on_minute) >= MinutesPerHour
            THEN "minute_bounds"
          ELSE "none"

(***************************************************************************)
(* turn_on_guard: the diagnostic it prints, "none" when it accepts.        *)
(***************************************************************************)
turn_on_guard_msg(time_on) ==
  IF Len(time_on) < MinLength THEN "too_short"
  ELSE IF ~contains(time_on, ":") /\ ~contains(time_on, ".")
    THEN "missing_separator"
  ELSE LET on_hour   == substr(time_on, 0, 2)
           on_minute == substr(time_on, 3, 2)
       IN IF ~is_number(on_hour) \/ ~is_number(on_minute) THEN "non_number"
          ELSE IF stoi(on_hour) < 0 \/ stoi(on_hour) >= HoursPerDay
            THEN "hour_bounds"
          ELSE IF stoi(on_minute) < 0 \/ stoi(on_minute) >= MinutesPerHour
            THEN "minute_bounds"
          ELSE "none"

\* Variant of turn_on_guard that lets a minute field of 60 through.
turn_on_guard_minute_60(time_on) ==
  \/ turn_on_guard_msg(time_on) = "none"
  \/ /\ turn_on_guard_msg(time_on) = "minute_bounds"
     /\ stoi(substr(time_on, 3, 2)) = MinutesPerHour

turn_on_guard(time_on) == turn_on_guard_msg(time_on) = "none"

\* Variant of on_action_minutes that weighs the hour by 24.
on_action_minutes_hour_24(time_on) ==
  stoi(substr(time_on, 0, 2)) * 24 + stoi(substr(time_on, 3, 2))

(***************************************************************************)
(* on_action: the start time it stores.                                    *)
(***************************************************************************)
on_action_minutes(time_on) ==
  stoi(substr(time_on, 0, 2)) * 60 + stoi(substr(time_on, 3, 2))

(***************************************************************************)
(* iterate_task: the schedule arithmetic.                                  *)
(***************************************************************************)
long_on_time  == <<"1", "8", ":", "0", "0">>
short_on_time == <<"1", "2", ":", "0", "0">>

\* Variant of duration_time that scales the hour field by 24.
duration_time_hour_24(dur_time_s) ==
  stoi(substr(dur_time_s, 0, 2)) * 24 + stoi(substr(dur_time_s, 3, 2))

duration_time(dur_time_s) ==
  stoi(substr(dur_time_s, 0, 2)) * 60 + stoi(substr(dur_time_s, 3, 2))

stop_time(start_time, dur) == (start_time + dur) % MinutesPerDay

stop_next_day(start_time, dur) == stop_time(start_time, dur) < start_time

light_command(start_time, dur, now_time) ==
  IF stop_next_day(start_time, dur)
    THEN start_time < now_time
    ELSE now_time < stop_time(start_time, dur)

\* Variant of toggle_timeslot whose two branches assign the same slot.
toggle_timeslot_same_branch(slot) == IF slot = "SHORT" THEN "SHORT" ELSE "SHORT"

(***************************************************************************)
(* change_on_time_action: the new value of active_timeslot.                *)
(***************************************************************************)
toggle_timeslot(slot) == IF slot = "SHORT" THEN "LONG" ELSE "SHORT"

(***************************************************************************)
(* Inputs: the texts given as argv[1] and the times of day the clock shows.*)
(***************************************************************************)
HHMM(h, m) ==
  <<DigitChars[(h \div 10) + 1], DigitChars[(h % 10) + 1], ":",
    DigitChars[(m \div 10) + 1], DigitChars[(m % 10) + 1]>>

ValidTexts == {HHMM(h, m) : h \in 0..(HoursPerDay - 1), m \in 0..(MinutesPerHour - 1)}

Alphabet == {"2", "6", ":", ".", "a"}

BoundedTexts == UNION {[1..n -> Alphabet] : n \in 0..MaxLen}

ExampleTexts ==
  { <<"7", ":", "3">>,
    <<"2", "5", ":", "0", "0">>,
    <<"2", "4", ":", "0", "0">>,
    <<"2", "3", ":", "6", "0">>,
    <<"1", "2", ";", "3", "0">>,
    <<"1", "a", ":", "3", "0">>,
    <<"0", "7", ".", "3", "0">>,
    <<"0", "7", "3", "0", ":">>,
    <<"0", "7", "x", "3", "0", ":">>,
    <<"0", "7", ":", "3", "0", "a", "b">> }

TextInputs == ValidTexts \cup BoundedTexts \cup ExampleTexts

ArgTexts ==
  { HHMM(7, 30), HHMM(23, 0), HHMM(2, 0),
    <<"2", "5", ":", "0", "0">>, <<"7", ":", "3">> }

ClockStarts == {59, 449, 1439}

GridTimes ==
  {t \in 0..(MinutesPerDay - 1) : t % GridStep \in {0, 1, GridStep - 1}}

(***************************************************************************)
(* Initial states.  InitOf(texts, clocks) is the state in which main       *)
(* starts, for each text and each time of day.                             *)
(***************************************************************************)
InitOf(texts, clocks) ==
  /\ args1 \in texts
  /\ clock \in clocks
  /\ ticks = 0
  /\ state = "off"
  /\ active_timeslot = "LONG"
  /\ start_time_minutes = 0
  /\ task_running = FALSE
  /\ light = FALSE
  /\ onoff_last = FALSE
  /\ mode_last = FALSE
  /\ mpc = "entry"
  /\ wpc = "none"
  /\ w_now = 0
  /\ w_start = 0
  /\ w_dur = <<>>
  /\ diag = "none"
  /\ events = <<>>
  /\ edges = 0

Init == InitOf(ArgTexts, ClockStarts)

\* The process dies at a failed assert or at std::terminate.
Alive == mpc # "aborted" /\ wpc \notin {"assert_failed", "terminated"}

(***************************************************************************)
(* The state machine's dispatch of the three events (transition table,     *)
(* main.cpp:305-310) with the first, non-blocking part of each action.     *)
(* boost/sml.hpp is not part of the sources: its releases differ in        *)
(* whether the target state is stored before the action is called or after *)
(* it has returned, so while an action runs sm.is() gives either the       *)
(* source or the target state, and the target state once it has returned.  *)
(* evs is the sequence of events submitted before this one.                *)
(***************************************************************************)
\* on_action, lines 257-261: start the timer thread unless it is running.
\* Assigning to a joinable std::thread calls std::terminate.
on_action_start ==
  IF ~task_running
    THEN /\ task_running' = TRUE
         /\ wpc' = IF wpc = "none" THEN "check" ELSE "terminated"
    ELSE UNCHANGED <<task_running, wpc>>

process_turn_on(evs, action_pc, return_pc) ==
  /\ events' = Append(evs, <<"turn_on", state>>)
  /\ diag' = IF state = "off" THEN turn_on_guard_msg(args1) ELSE diag
  /\ IF state = "off" /\ turn_on_guard(args1)
       THEN /\ state' \in {"off", "on"}
            /\ on_action_start
            /\ mpc' = action_pc
       ELSE /\ mpc' = return_pc
            /\ UNCHANGED <<state, task_running, wpc>>
  /\ UNCHANGED <<active_timeslot, start_time_minutes, light>>

\* on_action, lines 263-265: store the start time; process_event returns in on.
on_action_store(action_pc, return_pc) ==
  /\ mpc = action_pc
  /\ Alive
  /\ start_time_minutes' = on_action_minutes(args1)
  /\ state' = "on"
  /\ mpc' = return_pc
  /\ UNCHANGED <<args1, clock, ticks, active_timeslot, task_running, light,
                 onoff_last, mode_last, wpc, w_now, w_start, w_dur, diag,
                 events, edges>>

\* Variant of process_turn_off whose off_action neither clears the flag nor
\* joins the thread.
process_turn_off_no_join(evs, return_pc) ==
  /\ events' = Append(evs, <<"turn_off", state>>)
  /\ IF state = "on"
       THEN /\ light' = FALSE
            /\ state' = "off"
            /\ mpc' = return_pc
       ELSE /\ mpc' = return_pc
            /\ UNCHANGED <<state, light>>
  /\ UNCHANGED <<active_timeslot, start_time_minutes, task_running, wpc, diag>>

\* Variant of process_turn_off whose off_action also puts the time slot back
\* to LONG.
process_turn_off_resets_slot(evs, return_pc) ==
  /\ events' = Append(evs, <<"turn_off", state>>)
  /\ IF state = "on"
       THEN /\ active_timeslot' = "LONG"
            /\ IF task_running
                 THEN /\ state' \in {"on", "off"}
                      /\ task_running' = FALSE
                      /\ mpc' = "join"
                      /\ UNCHANGED light
                 ELSE /\ state' = "off"
                      /\ light' = FALSE
                      /\ mpc' = return_pc
                      /\ UNCHANGED task_running
       ELSE /\ mpc' = return_pc
            /\ UNCHANGED <<state, light, task_running, active_timeslot>>
  /\ UNCHANGED <<start_time_minutes, wpc, diag>>

\* off_action, lines 272-273: clear the flag and block in join; without a
\* running task the action goes straight to do_light::off.
process_turn_off(evs, return_pc) ==
  /\ events' = Append(evs, <<"turn_off", state>>)
  /\ IF state = "on"
       THEN IF task_running
              THEN /\ state' \in {"on", "off"}
                   /\ task_running' = FALSE
                   /\ mpc' = "join"
                   /\ UNCHANGED light
              ELSE /\ state' = "off"
                   /\ light' = FALSE
                   /\ mpc' = return_pc
                   /\ UNCHANGED task_running
       ELSE /\ mpc' = return_pc
            /\ UNCHANGED <<state, light, task_running>>
  /\ UNCHANGED <<active_timeslot, start_time_minutes, wpc, diag>>

\* Variant of off_action_join that detaches the thread instead of waiting
\* for it to end.
off_action_join_no_wait ==
  /\ mpc = "join"
  /\ light' = FALSE
  /\ state' = "off"
  /\ mpc' = "poll_mode"
  /\ UNCHANGED <<args1, clock, ticks, active_timeslot, start_time_minutes,
                 task_running, onoff_last, mode_last, wpc, w_now, w_start,
                 w_dur, diag, events, edges>>

\* off_action, lines 274-278: join returns once the thread has ended, then
\* do_light::off; process_event returns in off.
off_action_join ==
  /\ mpc = "join"
  /\ wpc = "done"
  /\ wpc' = "none"
  /\ light' = FALSE
  /\ state' = "off"
  /\ mpc' = "poll_mode"
  /\ UNCHANGED <<args1, clock, ticks, active_timeslot, start_time_minutes,
                 task_running, onoff_last, mode_last, w_now, w_start, w_dur,
                 diag, events, edges>>

\* Variant of process_change_on_time whose action runs in every state.
process_change_on_time_any_state(evs) ==
  /\ events' = Append(evs, <<"change_on_time", state>>)
  /\ active_timeslot' = toggle_timeslot(active_timeslot)

process_change_on_time(evs) ==
  /\ events' = Append(evs, <<"change_on_time", state>>)
  /\ active_timeslot' =
       IF state = "on" THEN toggle_timeslot(active_timeslot)
       ELSE active_timeslot

(***************************************************************************)
(* Main thread: process entry (main.cpp:333-334).                          *)
(***************************************************************************)
EntryTurnOn ==
  /\ mpc = "entry"
  /\ Alive
  /\ process_turn_on(<<>>, "entry_action", "assert")
  /\ UNCHANGED <<args1, clock, ticks, onoff_last, mode_last, w_now, w_start,
                 w_dur, edges>>

EntryOnAction == on_action_store("entry_action", "assert")

EntryAssert ==
  /\ mpc = "assert"
  /\ Alive
  /\ mpc' = IF state = "on" THEN "poll1" ELSE "aborted"
  /\ UNCHANGED <<args1, clock, ticks, state, active_timeslot,
                 start_time_minutes, task_running, light, onoff_last,
                 mode_last, wpc, w_now, w_start, w_dur, diag, events, edges>>

(***************************************************************************)
(* Main thread: one iteration of the loop (main.cpp:336-350).  Each read   *)
(* of a pin (digitalRead, or rand() off the target) is an input.           *)
(***************************************************************************)
\* Variant of toggled that reports the level read instead of a change.
toggled_level(last_value, is_pressed) == is_pressed

\* hw::input::toggled (lines 106-123): the value returned for a level read.
toggled(last_value, is_pressed) == last_value # is_pressed

\* Variant of Poll1 that submits turn_on on an edge without testing sm.is(off).
Poll1_any_state ==
  /\ mpc = "poll1"
  /\ Alive
  /\ \E is_pressed \in BOOLEAN :
       /\ onoff_last' = is_pressed
       /\ edges' = IF toggled(onoff_last, is_pressed) THEN 1 ELSE 0
       /\ IF toggled(onoff_last, is_pressed)
            THEN process_turn_on(<<>>, "loop_action", "poll_mode")
            ELSE /\ mpc' = "poll2"
                 /\ events' = <<>>
                 /\ UNCHANGED <<state, active_timeslot, start_time_minutes,
                                task_running, light, wpc, diag>>
  /\ UNCHANGED <<args1, clock, ticks, mode_last, w_now, w_start, w_dur>>

\* Line 337: if (di_onoff::toggled() && sm.is(off)) process_event(turn_on).
Poll1 ==
  /\ mpc = "poll1"
  /\ Alive
  /\ \E is_pressed \in BOOLEAN :
       /\ onoff_last' = is_pressed
       /\ edges' = IF toggled(onoff_last, is_pressed) THEN 1 ELSE 0
       /\ IF toggled(onoff_last, is_pressed) /\ state = "off"
            THEN process_turn_on(<<>>, "loop_action", "poll_mode")
            ELSE /\ mpc' = "poll2"
                 /\ events' = <<>>
                 /\ UNCHANGED <<state, active_timeslot, start_time_minutes,
                                task_running, light, wpc, diag>>
  /\ UNCHANGED <<args1, clock, ticks, mode_last, w_now, w_start, w_dur>>

LoopOnAction == on_action_store("loop_action", "poll_mode")

\* Line 339: else if (di_onoff::toggled() && sm.is(on)) process_event(turn_off).
Poll2 ==
  /\ mpc = "poll2"
  /\ Alive
  /\ \E is_pressed \in BOOLEAN :
       /\ onoff_last' = is_pressed
       /\ edges' = IF toggled(onoff_last, is_pressed) THEN edges + 1 ELSE edges
       /\ IF toggled(onoff_last, is_pressed) /\ state = "on"
            THEN process_turn_off(events, "poll_mode")
            ELSE /\ mpc' = "poll_mode"
                 /\ UNCHANGED <<state, active_timeslot, start_time_minutes,
                                task_running, light, wpc, diag, events>>
  /\ UNCHANGED <<args1, clock, ticks, mode_last, w_now, w_start, w_dur>>

OffActionJoin == off_action_join /\ Alive

\* Lines 342-343 and the usleep of line 349.
PollMode ==
  /\ mpc = "poll_mode"
  /\ Alive
  /\ \E is_pressed \in BOOLEAN :
       /\ mode_last' = is_pressed
       /\ IF toggled(mode_last, is_pressed)
            THEN process_change_on_time(events)
            ELSE UNCHANGED <<events, active_timeslot>>
  /\ mpc' = "poll1"
  /\ UNCHANGED <<args1, clock, ticks, state, start_time_minutes, task_running,
                 light, onoff_last, wpc, w_now, w_start, w_dur, diag, edges>>

(***************************************************************************)
(* Timer thread: timer_task (lines 243-249) and iterate_task (202-240).    *)
(***************************************************************************)
\* Line 244: while (task_running.load()).
TimerCheck ==
  /\ wpc = "check"
  /\ Alive
  /\ wpc' = IF task_running THEN "iterate" ELSE "done"
  /\ UNCHANGED <<args1, clock, ticks, state, active_timeslot,
                 start_time_minutes, task_running, light, onoff_last,
                 mode_last, mpc, w_now, w_start, w_dur, diag, events, edges>>

\* Lines 203-209: read the clock, load start_time_minutes.
IterateRead ==
  /\ wpc = "iterate"
  /\ Alive
  /\ w_now' = clock
  /\ w_start' = start_time_minutes
  /\ wpc' = "slot_long"
  /\ UNCHANGED <<args1, clock, ticks, state, active_timeslot,
                 start_time_minutes, task_running, light, onoff_last,
                 mode_last, mpc, w_dur, diag, events, edges>>

\* Line 215: if (active_timeslot == TIMESLOT::LONG).
IterateSlotLong ==
  /\ wpc = "slot_long"
  /\ Alive
  /\ IF active_timeslot = "LONG"
       THEN w_dur' = long_on_time /\ wpc' = "write"
       ELSE w_dur' = w_dur /\ wpc' = "slot_short"
  /\ UNCHANGED <<args1, clock, ticks, state, active_timeslot,
                 start_time_minutes, task_running, light, onoff_last,
                 mode_last, mpc, w_now, w_start, diag, events, edges>>

\* Lines 217-221: else if (active_timeslot == TIMESLOT::SHORT) ... else assert.
IterateSlotShort ==
  /\ wpc = "slot_short"
  /\ Alive
  /\ IF active_timeslot = "SHORT"
       THEN w_dur' = short_on_time /\ wpc' = "write"
       ELSE w_dur' = w_dur /\ wpc' = "assert_failed"
  /\ UNCHANGED <<args1, clock, ticks, state, active_timeslot,
                 start_time_minutes, task_running, light, onoff_last,
                 mode_last, mpc, w_now, w_start, diag, events, edges>>

\* Lines 223-239: compute the window and drive the output.
IterateWrite ==
  /\ wpc = "write"
  /\ Alive
  /\ light' = light_command(w_start, duration_time(w_dur), w_now)
  /\ wpc' = "sleep"
  /\ UNCHANGED <<args1, clock, ticks, state, active_timeslot,
                 start_time_minutes, task_running, onoff_last, mode_last,
                 mpc, w_now, w_start, w_dur, diag, events, edges>>

\* Line 247: sleep, back to the loop condition; iterate_task's locals are gone.
TimerSleep ==
  /\ wpc = "sleep"
  /\ Alive
  /\ wpc' = "check"
  /\ w_now' = 0
  /\ w_start' = 0
  /\ w_dur' = <<>>
  /\ UNCHANGED <<args1, clock, ticks, state, active_timeslot,
                 start_time_minutes, task_running, light, onoff_last,
                 mode_last, mpc, diag, events, edges>>

(***************************************************************************)
(* The wall clock advances by a minute, at most MaxTicks times.            *)
(***************************************************************************)
Tick ==
  /\ Alive
  /\ ticks < MaxTicks
  /\ ticks' = ticks + 1
  /\ clock' = (clock + 1) % MinutesPerDay
  /\ UNCHANGED <<args1, state, active_timeslot, start_time_minutes,
                 task_running, light, onoff_last, mode_last, mpc, wpc, w_now,
                 w_start, w_dur, diag, events, edges>>

Next ==
  \/ EntryTurnOn \/ EntryOnAction \/ EntryAssert
  \/ Poll1 \/ LoopOnAction \/ Poll2 \/ OffActionJoin \/ PollMode
  \/ TimerCheck \/ IterateRead \/ IterateSlotLong \/ IterateSlotShort
  \/ IterateWrite \/ TimerSleep
  \/ Tick

Spec == Init /\ [][Next]_vars

(***************************************************************************)
(* Scheduling: the timer thread is a std::thread, so whenever it has a     *)
(* step to take it eventually takes it (its sleep is finite), and a join   *)
(* whose thread has ended eventually returns.                              *)
(***************************************************************************)
timer_task ==
  \/ TimerCheck \/ IterateRead \/ IterateSlotLong \/ IterateSlotShort
  \/ IterateWrite \/ TimerSleep

SpecFair ==
  Init /\ [][Next]_vars /\ WF_vars(timer_task) /\ WF_vars(OffActionJoin)

(***************************************************************************)
(* Process entry alone (main.cpp:333-334) for every text of TextInputs:    *)
(* the first turn_on, its guard and action, the assert, and the timer      *)
(* thread that the action starts.  active_timeslot is LONG throughout, so  *)
(* line 217 is not reached.                                                *)
(***************************************************************************)
InitEntry == InitOf(TextInputs, ClockStarts)

NextEntry ==
  \/ EntryTurnOn \/ EntryOnAction \/ EntryAssert
  \/ TimerCheck \/ IterateRead \/ IterateSlotLong \/ IterateWrite
  \/ TimerSleep
  \/ Tick

SpecEntry == InitEntry /\ [][NextEntry]_vars

(***************************************************************************)
(* The timer thread alone during an On session, for every start time and   *)
(* time of day of GridTimes and both time slots: the main thread is at the *)
(* top of its loop and the thread is about to test task_running.           *)
(***************************************************************************)
InitEval ==
  /\ start_time_minutes \in GridTimes
  /\ args1 = HHMM(start_time_minutes \div 60, start_time_minutes % 60)
  /\ clock \in GridTimes
  /\ ticks = MaxTicks
  /\ state = "on"
  /\ active_timeslot \in {"LONG", "SHORT"}
  /\ task_running = TRUE
  /\ light = FALSE
  /\ onoff_last = FALSE
  /\ mode_last = FALSE
  /\ mpc = "poll1"
  /\ wpc = "check"
  /\ w_now = 0
  /\ w_start = 0
  /\ w_dur = <<>>
  /\ diag = "none"
  /\ events = <<>>
  /\ edges = 0

NextEval ==
  \/ TimerCheck \/ IterateRead \/ IterateSlotLong \/ IterateSlotShort
  \/ IterateWrite \/ TimerSleep

SpecEval == InitEval /\ [][NextEval]_vars

(***************************************************************************)
(* The state machine driven directly: a caller of sm.process_event that    *)
(* submits, at each of the loop's three call sites, its event in whatever  *)
(* state the machine is in, or passes the call site by.  Every event       *)
(* reaches the transition table (main.cpp:305-310) in every state.         *)
(***************************************************************************)
InitFsm ==
  /\ args1 \in ArgTexts
  /\ clock \in ClockStarts
  /\ ticks = 0
  /\ state = "off"
  /\ active_timeslot = "LONG"
  /\ start_time_minutes = 0
  /\ task_running = FALSE
  /\ light = FALSE
  /\ onoff_last = FALSE
  /\ mode_last = FALSE
  /\ mpc = "poll1"
  /\ wpc = "none"
  /\ w_now = 0
  /\ w_start = 0
  /\ w_dur = <<>>
  /\ diag = "none"
  /\ events = <<>>
  /\ edges = 0

FsmTurnOn ==
  /\ mpc = "poll1"
  /\ Alive
  /\ process_turn_on(<<>>, "loop_action", "poll_mode")
  /\ UNCHANGED <<args1, clock, ticks, onoff_last, mode_last, w_now, w_start,
                 w_dur, edges>>

FsmTurnOff ==
  /\ mpc = "poll2"
  /\ Alive
  /\ process_turn_off(events, "poll_mode")
  /\ UNCHANGED <<args1, clock, ticks, onoff_last, mode_last, w_now, w_start,
                 w_dur, edges>>

FsmChangeOnTime ==
  /\ mpc = "poll_mode"
  /\ Alive
  /\ process_change_on_time(events)
  /\ mpc' = "poll1"
  /\ UNCHANGED <<args1, clock, ticks, state, start_time_minutes, task_running,
                 light, onoff_last, mode_last, wpc, w_now, w_start, w_dur,
                 diag, edges>>

FsmPass ==
  /\ mpc \in {"poll1", "poll2", "poll_mode"}
  /\ Alive
  /\ mpc' = IF mpc = "poll1" THEN "poll2"
            ELSE IF mpc = "poll2" THEN "poll_mode" ELSE "poll1"
  /\ events' = IF mpc = "poll1" THEN <<>> ELSE events
  /\ UNCHANGED <<args1, clock, ticks, state, active_timeslot,
                 start_time_minutes, task_running, light, onoff_last,
                 mode_last, wpc, w_now, w_start, w_dur, diag, edges>>

NextFsm ==
  \/ FsmTurnOn \/ LoopOnAction \/ FsmTurnOff \/ OffActionJoin
  \/ FsmChangeOnTime \/ FsmPass
  \/ TimerCheck \/ IterateRead \/ IterateSlotLong \/ IterateSlotShort
  \/ IterateWrite \/ TimerSleep
  \/ Tick

SpecFsm == InitFsm /\ [][NextFsm]_vars

(***************************************************************************)
(* Vocabulary of the properties.                                           *)
(***************************************************************************)
Last(seq) == seq[Len(seq)]

\* This step hands event e to the state machine.  Poll1 and the entry start
\* a new list of events, every other submission extends the list.
Submitted(e) ==
  /\ mpc' # mpc
  /\ \/ events' = Append(events, <<e, state>>)
     \/ mpc \in {"entry", "poll1"} /\ events' = <<<<e, state>>>>

\* The main thread is inside on_action: the thread is started, the start
\* time not yet stored, the state machine in off or already in on.
InOnAction == mpc \in {"entry_action", "loop_action"}

\* The main thread is inside off_action, waiting in join: the flag is
\* cleared, the state machine still in on or already in off.
InOffAction == mpc = "join"

\* The main thread is between two calls of process_event.
BetweenEvents == mpc \in {"entry", "assert", "poll1", "poll2", "poll_mode"}

\* The rules of the start-time check as the specification lists them, by
\* character position.
DigitSet == {"0", "1", "2", "3", "4", "5", "6", "7", "8", "9"}

FieldValue(t, i) == DigitVal(t[i]) * 10 + DigitVal(t[i + 1])

ExpectedRejection(t) ==
  IF Len(t) < 5 THEN "too_short"
  ELSE IF \A i \in 1..Len(t) : t[i] \notin {":", "."} THEN "missing_separator"
  ELSE IF \E i \in {1, 2, 4, 5} : t[i] \notin DigitSet THEN "non_number"
  ELSE IF FieldValue(t, 1) \notin 0..23 THEN "hour_bounds"
  ELSE IF FieldValue(t, 4) \notin 0..59 THEN "minute_bounds"
  ELSE "none"

\* The duration the specification gives each profile string.
ProfileMinutes(dur_time_s) == IF dur_time_s = long_on_time THEN 1080 ELSE 720

EvalStop == (w_start + ProfileMinutes(w_dur)) % 1440

\* iterate_task has just driven the output from w_start, w_dur and w_now.
Evaluated == wpc = "sleep"

(***************************************************************************)
(* C1: for every text HH:MM with hour in [0,23] and minute in [0,59], the  *)
(* guard accepts the text and, once the turn_on submitted in off has been  *)
(* processed, the state is on and start_time_minutes = hour*60 + minute    *)
(* (the stored value, written back as HH:MM, is the text).                 *)
(***************************************************************************)
C1_ValidTurnOnRecordsStart ==
  (args1 \in ValidTexts /\ mpc # "entry") =>
    /\ diag = "none"
    /\ mpc # "aborted"
    /\ mpc # "entry_action" =>
         /\ state = "on"
         /\ start_time_minutes \in 0..1439
         /\ HHMM(start_time_minutes \div 60, start_time_minutes % 60) = args1

C1_Witness ==
  /\ args1 = <<"0", "7", ":", "3", "0">>
  /\ mpc = "assert"
  /\ events = <<<<"turn_on", "off">>>>
  /\ state = "on"
  /\ start_time_minutes = 450

(***************************************************************************)
(* C2: after an evaluation whose window does not wrap (stop >= start) the  *)
(* light is on if and only if start <= now < stop.                         *)
(***************************************************************************)
C2_NonWrappingWindow ==
  (Evaluated /\ ~(EvalStop < w_start)) =>
    (light <=> (w_start <= w_now /\ w_now < EvalStop))

(***************************************************************************)
(* C3: after an evaluation whose window wraps past midnight (stop < start) *)
(* the light is on if and only if now >= start or now < stop.              *)
(***************************************************************************)
C3_WrappingWindow ==
  (Evaluated /\ EvalStop < w_start) =>
    (light <=> (w_now >= w_start \/ w_now < EvalStop))

(***************************************************************************)
(* C4: once the guard has run on the text, the diagnostic it printed is    *)
(* that of the first failing rule in the order too short, missing          *)
(* separator, non-numeric, hour out of range, minute out of range, and the *)
(* turn_on is rejected if and only if one of the rules fails.              *)
(***************************************************************************)
C4_FirstFailingRuleDecides ==
  mpc # "entry" =>
    /\ diag = ExpectedRejection(args1)
    /\ (InOnAction \/ state = "on") <=> ExpectedRejection(args1) = "none"

C4_Witness ==
  /\ args1 = <<"6", "6", ":", "6", "6">>
  /\ mpc = "assert"
  /\ diag = "hour_bounds"
  /\ state = "off"

(***************************************************************************)
(* C5: a step that processes turn_on in off with a text one of the rules   *)
(* rejects leaves the state off, does not enter on_action, and leaves      *)
(* start_time_minutes, active_timeslot, task_running, the light and the    *)
(* (absent) timer thread unchanged.                                        *)
(***************************************************************************)
C5_RejectedTurnOnChangesNothing ==
  [][(Submitted("turn_on") /\ state = "off"
        /\ ExpectedRejection(args1) # "none") =>
       /\ state' = "off"
       /\ ~InOnAction'
       /\ UNCHANGED <<start_time_minutes, active_timeslot, task_running,
                      light, wpc>>
       /\ wpc' = "none"]_vars

C5_Witness ==
  /\ ExpectedRejection(args1) = "non_number"
  /\ mpc = "assert"
  /\ events = <<<<"turn_on", "off">>>>
  /\ state = "off"
  /\ task_running = FALSE
  /\ wpc = "none"

(***************************************************************************)
(* C6: between two calls of process_event the timer thread exists, and     *)
(* task_running is set, if and only if the state is on; a thread is        *)
(* started only by a turn_on accepted in off, exactly one per transition   *)
(* to on (the state is on at the latest when on_action returns); every     *)
(* transition from on to off clears the flag and enters the join, and a    *)
(* thread is joined exactly in the step that leaves that join, in off; a   *)
(* second thread is never started over a live one.                         *)
(***************************************************************************)
C6_AtRest ==
  /\ BetweenEvents => /\ task_running <=> state = "on"
                      /\ wpc # "none" <=> state = "on"
  /\ wpc # "terminated"

C6_Step ==
  /\ (wpc = "none" /\ wpc' # "none") <=> (~InOnAction /\ InOnAction')
  /\ (~InOnAction /\ InOnAction') =>
       (Submitted("turn_on") /\ state = "off" /\ ~task_running
          /\ task_running' /\ wpc' = "check")
  /\ (state = "off" /\ state' = "on") =>
       ((InOnAction \/ InOnAction') /\ task_running' /\ wpc' # "none")
  /\ (InOnAction /\ ~InOnAction') => (state' = "on" /\ wpc' = wpc)
  /\ (state = "on" /\ state' = "off") => (InOffAction \/ InOffAction')
  /\ (~InOffAction /\ InOffAction') =>
       (Submitted("turn_off") /\ state = "on" /\ task_running
          /\ ~task_running' /\ wpc # "none" /\ wpc' = wpc)
  /\ (wpc # "none" /\ wpc' = "none") <=> (InOffAction /\ ~InOffAction')
  /\ (InOffAction /\ ~InOffAction') => state' = "off"

C6_WorkerRunsIffOn == []C6_AtRest /\ [][C6_Step]_vars

\* A second On session: SHORT with the mode input back at its first level
\* needs one change_on_time in on and one dropped in off.
C6_Witness ==
  /\ mpc = "poll_mode"
  /\ state = "on"
  /\ events = <<<<"turn_on", "off">>>>
  /\ active_timeslot = "SHORT"
  /\ mode_last = FALSE
  /\ task_running
  /\ wpc = "write"

(***************************************************************************)
(* C7: the step that completes turn_off (off_action returns from the join) *)
(* happens only after the timer thread has left its loop, joins it and     *)
(* leaves the light off in state off; from then on, for as long as the     *)
(* state is off and no turn_on is being processed, there is no thread and  *)
(* the light is off.  Only while off_action still waits in the join can    *)
(* the thread of the session be alive.                                     *)
(***************************************************************************)
C7_OffState ==
  (state = "off" /\ ~InOffAction /\ ~InOnAction) => (wpc = "none" /\ ~light)

C7_OffStep ==
  /\ (state = "on" /\ state' = "off") => (InOffAction \/ InOffAction')
  /\ (InOffAction /\ ~InOffAction') =>
       (state' = "off" /\ wpc = "done" /\ wpc' = "none" /\ ~task_running'
          /\ ~light')

C8_EdgeYieldsEvent ==
  (mpc = "poll_mode" /\ edges >= 1) =>
    /\ Len(events) = 1
    /\ events[1][1] \in {"turn_on", "turn_off"}

(***************************************************************************)
(* C9: a turn_on whose text the guard rejects never ends the process.      *)
(***************************************************************************)
C9_RejectionNotFatal == diag # "none" => mpc # "aborted"

(***************************************************************************)
(* C10: a step that processes change_on_time in on flips active_timeslot   *)
(* (LONG to SHORT, SHORT to LONG), keeps the state on and leaves           *)
(* start_time_minutes and task_running unchanged; active_timeslot is       *)
(* always LONG or SHORT.                                                   *)
(***************************************************************************)
C10_Step ==
  (Submitted("change_on_time") /\ state = "on") =>
    /\ active_timeslot = "LONG" => active_timeslot' = "SHORT"
    /\ active_timeslot = "SHORT" => active_timeslot' = "LONG"
    /\ state' = "on"
    /\ UNCHANGED <<start_time_minutes, task_running>>

C10_ChangeProfileFlips ==
  [](active_timeslot \in {"LONG", "SHORT"}) /\ [][C10_Step]_vars

C10_Witness ==
  /\ mpc = "poll1"
  /\ state = "on"
  /\ Len(events) = 1
  /\ events[1] = <<"change_on_time", "on">>
  /\ active_timeslot = "LONG"
  /\ mode_last = FALSE

(***************************************************************************)
(* C11: a step that processes change_on_time or turn_off while the state   *)
(* is off leaves the state off and leaves active_timeslot,                 *)
(* start_time_minutes, task_running and the light unchanged, and prints no *)
(* diagnostic.                                                             *)
(***************************************************************************)
C11_DroppedInOff ==
  [][((Submitted("change_on_time") \/ Submitted("turn_off")) /\ state = "off")
       => /\ state' = "off"
          /\ mpc' \in {"poll1", "poll_mode"}
          /\ UNCHANGED <<active_timeslot, start_time_minutes, task_running,
                         light, wpc, diag>>]_vars

\* Both events dropped in one round, after an On session that left SHORT and
\* a start time behind.
C11_Witness ==
  /\ mpc = "poll1"
  /\ state = "off"
  /\ events = <<<<"turn_off", "off">>, <<"change_on_time", "off">>>>
  /\ active_timeslot = "SHORT"
  /\ start_time_minutes = 1380
  /\ ~task_running
  /\ ~light

(***************************************************************************)
(* C12: active_timeslot changes only in a step that processes              *)
(* change_on_time while the state is on; no step of turn_on, turn_off, the *)
(* timer thread or the clock changes it, so a slot chosen in one On        *)
(* session is the slot of the next.                                        *)
(***************************************************************************)
C12_ProfileChangesOnlyByChangeInOn ==
  [][active_timeslot' # active_timeslot =>
       (Submitted("change_on_time") /\ state = "on" /\ state' = "on")]_vars

\* A turn_on from the loop has just been processed (so a turn_off came
\* before it) and the slot is still the SHORT chosen in an earlier session.
C12_Witness ==
  /\ mpc = "poll_mode"
  /\ state = "on"
  /\ events = <<<<"turn_on", "off">>>>
  /\ edges = 1
  /\ active_timeslot = "SHORT"
  /\ wpc = "check"

(***************************************************************************)
(* C13: in every run of the process entry and the main loop, each turn_on  *)
(* handed to the state machine is handed over while the state is off.      *)
(***************************************************************************)
C13_Step == Submitted("turn_on") => state = "off"

C13_Log == \A i \in 1..Len(events) : events[i] # <<"turn_on", "on">>

C13_NoTurnOnWhileOn == []C13_Log /\ [][C13_Step]_vars

\* A turn_on submitted by the loop (line 338) after an edge.
C13_Witness ==
  /\ mpc = "loop_action"
  /\ events = <<<<"turn_on", "off">>>>
  /\ edges = 1
  /\ task_running

(***************************************************************************)
(* C14: a poll of an input watcher returns true if and only if the level   *)
(* it reads differs from the level the previous poll stored (false before  *)
(* the first poll), and the level read is the level stored afterwards.     *)
(* The result of a poll shows in edges for the start/stop input and in the *)
(* change_on_time it triggers for the mode input; the level read is the    *)
(* level stored after the poll.                                            *)
(***************************************************************************)
C14_Step ==
  /\ (mpc = "poll1" /\ mpc' # mpc) =>
       (edges' = 1 <=> onoff_last' # onoff_last) /\ edges' \in {0, 1}
  /\ (mpc = "poll2" /\ mpc' # mpc) =>
       (edges' = edges + 1 <=> onoff_last' # onoff_last)
         /\ edges' \in {edges, edges + 1}
  /\ (mpc = "poll_mode" /\ mpc' # mpc) =>
       (Submitted("change_on_time") <=> mode_last' # mode_last)
         /\ (events' # events => Submitted("change_on_time"))
  /\ (mpc \notin {"poll1", "poll2"} \/ mpc' = mpc) => onoff_last' = onoff_last
  /\ (mpc # "poll_mode" \/ mpc' = mpc) => mode_last' = mode_last

C14_AtEntry == mpc \in {"entry", "entry_action", "assert"} =>
                 (~onoff_last /\ ~mode_last)

C14_PollReportsChange == []C14_AtEntry /\ [][C14_Step]_vars

\* The first poll of an iteration saw the level rise and reported it, the
\* second read the same level and reported nothing.
C14_Witness ==
  /\ mpc = "poll_mode"
  /\ onoff_last = TRUE
  /\ edges = 1
  /\ events = <<>>
  /\ state = "on"

(***************************************************************************)
(* C15: whenever the state is on, start_time_minutes is hour*60 + minute   *)
(* of the accepted text (fields read by character position) and lies in    *)
(* [0,1440); start_time_minutes changes only in the step of on_action that *)
(* stores it, never in a step of change_on_time, turn_off or the timer     *)
(* thread.                                                                 *)
(***************************************************************************)
ExpectedStart(t) == FieldValue(t, 1) * 60 + FieldValue(t, 4)

C15_WhileOn ==
  state = "on" =>
    /\ ExpectedRejection(args1) = "none"
    /\ start_time_minutes = ExpectedStart(args1)
    /\ start_time_minutes \in 0..1439

C15_Step ==
  start_time_minutes' # start_time_minutes =>
    (InOnAction /\ ~InOnAction' /\ state' = "on")

C15_StartTimeOfSession == []C15_WhileOn /\ [][C15_Step]_vars

(***************************************************************************)
(* C17: under every interleaving of the timer thread with on_action, the   *)
(* start time an evaluation loads (line 209) is the one stored by the      *)
(* turn_on that opened the session, hour*60 + minute of the accepted text, *)
(* never the initial 0.                                                    *)
(***************************************************************************)
C17_WorkerReadsSessionStart ==
  [][(wpc = "iterate" /\ wpc' = "slot_long") => w_start' = ExpectedStart(args1)]_vars

(***************************************************************************)
(* C18: under every interleaving of an evaluation with change_on_time      *)
(* processed by the main thread, the evaluation selects one of the two     *)
(* durations: the assert(false) branch of line 220 is never taken.         *)
(***************************************************************************)
C18_AssertBranchUnreachable == wpc # "assert_failed"

(***************************************************************************)
(* C20: the step of an evaluation that selects the duration selects the    *)
(* string of the slot it reads at that moment, worth 1080 minutes for LONG *)
(* and 720 for SHORT; the parsed duration is that number of minutes, and   *)
(* the output is driven from the window built on it.  An evaluation that   *)
(* starts after change_on_time was processed in on therefore reads the new *)
(* slot and uses its duration.                                             *)
(***************************************************************************)
C20_Parsed ==
  wpc \in {"write", "sleep"} =>
    /\ w_dur \in {long_on_time, short_on_time}
    /\ duration_time(w_dur) = ProfileMinutes(w_dur)

C20_Step ==
  /\ (wpc \in {"slot_long", "slot_short"} /\ wpc' = "write") =>
       /\ active_timeslot = "LONG" => ProfileMinutes(w_dur') = 1080
       /\ active_timeslot = "SHORT" => ProfileMinutes(w_dur') = 720
       /\ w_dur' = IF active_timeslot = "LONG" THEN long_on_time ELSE short_on_time
  /\ (wpc = "write" /\ wpc' = "sleep") =>
       light' = light_command(w_start, ProfileMinutes(w_dur), w_now)

C20_DurationOfProfileRead == []C20_Parsed /\ [][C20_Step]_vars

C20_Witness ==
  /\ wpc = "sleep"
  /\ w_dur = short_on_time
  /\ active_timeslot = "SHORT"
  /\ events = << <<"turn_on", "off">>, <<"change_on_time", "on">> >>
  /\ w_start = 1380
  /\ light

(***************************************************************************)
(* C19: under weak fairness of the timer thread, every turn_off processed  *)
(* in on completes: once off_action waits in join, the thread sees the     *)
(* cleared flag at its loop test and ends, join returns, and the state is  *)
(* off with the light off.                                                 *)
(***************************************************************************)
C19_TurnOffCompletes ==
  (mpc = "join") ~> (state = "off" /\ ~light /\ wpc = "none")

====
